---- MODULE Spec2Model ----
(***************************************************************************)
(* A model of src/main.rs: the parser of `nix-store --query --tree` text   *)
(* (process_lines), the arena graph (PackageTree), the annotation pass     *)
(* (calculate_graph_properties) and the two exporters (generate_dot_file,  *)
(* generate_package_list), driven by main.                                 *)
(*                                                                         *)
(* Text is modelled as sequences of tokens.  The prefix glyphs are one     *)
(* token each; a store path is the token sequence                          *)
(*     "/nix/store/"  <32-character hash>  "-"  <name>                     *)
(* and a back reference carries the two further tokens " " and "[...]".    *)
(***************************************************************************)
EXTENDS Integers, Sequences, FiniteSets, TLC

(* ------------------------------ bounds -------------------------------- *)
\* Longest tree drawn below the root, in lines, for the enumerated closures.
MaxLines == 4
\* A flat closure (root with WideLines direct dependencies) that fills more
\* than one rank chunk of the dot file.
WideLines == 21
\* A flat closure whose level 1 fills two rank chunks and part of a third.
WiderLines == 50

(* ------------------------------ tokens -------------------------------- *)
Tok(k, n) == [k |-> k, n |-> n]
Tee   == Tok("tee", 0)      \* the glyph U+251C, "more siblings follow"
Ell   == Tok("ell", 0)      \* the glyph U+2514, "last sibling"
Bar   == Tok("bar", 0)      \* the glyph U+2502, continuation
Dash  == Tok("dash", 0)     \* the glyph U+2500
Sp    == Tok("sp", 0)       \* one space
Store == Tok("store", 0)    \* the text "/nix/store/"
Rel   == Tok("rel", 0)      \* the text "nix/store/": a path that is not absolute
Hy    == Tok("hy", 0)       \* the text "-"
Ref   == Tok("ref", 0)      \* the text "[...]"
Junk  == Tok("junk", 0)     \* any character that is none of the above
Hash(c) == Tok("hash", c)   \* a 32-character hash, one per store path
Name(n) == Tok("name", n)   \* a symbolic package name

\* Length in bytes of the text a token stands for, as far as split_at needs it.
TokLen(t) ==
  CASE t.k = "store" -> 11
    [] t.k = "hash"  -> 32
    [] t.k = "rel"   -> 10
    [] t.k = "ref"   -> 5
    [] t.k = "name"  -> 4
    [] OTHER         -> 1

(* ------------------- the closure that nix-store draws ------------------ *)
\* A drawn tree is the sequence of its lines below the root, in order.  A
\* line is [depth, ref]: ref = -1 draws a path for the first time, ref = c
\* draws the path created c-th (0 is the root) with the "[...]" suffix.
Created(t) == Cardinality({i \in 1..Len(t) : t[i].ref = -1})

\* The lines that may follow the drawn tree t: one level deeper only below a
\* path drawn for the first time (a "[...]" line has nothing drawn under it).
Extensions(t) ==
  LET maxDepth == IF t = <<>> THEN 1
                  ELSE IF t[Len(t)].ref = -1 THEN t[Len(t)].depth + 1
                  ELSE t[Len(t)].depth
  IN  { Append(t, [depth |-> d, ref |-> r]) :
          d \in 1..maxDepth, r \in {-1} \cup (0..Created(t)) }

RECURSIVE TreesOfLen(_)
TreesOfLen(n) ==
  IF n = 0 THEN {<<>>} ELSE UNION { Extensions(t) : t \in TreesOfLen(n - 1) }

Trees == UNION { TreesOfLen(n) : n \in 0..MaxLines }

\* Root with `w` direct dependencies and nothing below them.
FlatTree(w) == [i \in 1..w |-> [depth |-> 1, ref |-> -1]]

\* The arena position line i's path gets (or refers to).
NodeOfLine(t, i) ==
  IF t[i].ref = -1
    THEN Cardinality({j \in 1..i : t[j].ref = -1})
    ELSE t[i].ref

\* Naming of the paths: scheme 0 gives every path its own name, scheme m > 0
\* gives path c the name c % m (m = 1: all the same name).
NameSchemes == {0, 1, 2}
NameOf(scheme, c) == IF scheme = 0 THEN Name(c) ELSE Name(c % scheme)

PathOf(scheme, c) == <<Store, Hash(c), Hy, NameOf(scheme, c)>>

\* What `nix-store --query --size` answers for path c.
SizeTables == {"same", "grow", "peak"}
SizeOf(table, c) ==
  CASE table = "same" -> 7
    [] table = "grow" -> c + 1
    [] table = "peak" -> IF c = 1 THEN 9 ELSE 1

\* TRUE iff, below line i, the next line at depth <= k is at depth k: the
\* column k of line i is drawn "continuing".
Continues(t, i, k) ==
  LET later == {j \in (i + 1)..Len(t) : t[j].depth <= k}
  IN  /\ later # {}
      /\ t[CHOOSE j \in later : \A j2 \in later : j <= j2].depth = k

RECURSIVE Cells(_, _, _)
Cells(t, i, k) ==
  IF k = t[i].depth
    THEN IF Continues(t, i, k) THEN <<Tee, Dash, Dash, Dash>>
                               ELSE <<Ell, Dash, Dash, Dash>>
    ELSE (IF Continues(t, i, k) THEN <<Bar, Sp, Sp, Sp>>
                                ELSE <<Sp, Sp, Sp, Sp>>)
         \o Cells(t, i, k + 1)

\* What is wrong with the text, if anything.
NoFault == [kind |-> "none", at |-> 0]
Faults(t) ==
  {NoFault, [kind |-> "empty", at |-> 0], [kind |-> "badroot", at |-> 0]}
  \cup { [kind |-> k, at |-> i] : k \in {"badline", "badpath"}, i \in 1..Len(t) }
  \cup { [kind |-> "dangling", at |-> i] : i \in {j \in 1..Len(t) : t[j].ref # -1} }

LineText(t, scheme, fault, i) ==
  LET c    == NodeOfLine(t, i)
      path == IF fault.kind = "badpath" /\ fault.at = i
                THEN <<Rel, Hash(c), Hy, NameOf(scheme, c)>>
              ELSE IF fault.kind = "dangling" /\ fault.at = i
                THEN PathOf(scheme, Created(t) + 1)
              ELSE PathOf(scheme, c)
      sfx  == IF t[i].ref = -1 THEN <<>> ELSE <<Sp, Ref>>
      text == Cells(t, i, 1) \o path \o sfx
  IN  IF fault.kind = "badline" /\ fault.at = i THEN <<Junk>> \o text ELSE text

\* The output of `nix-store --query --tree`: the root's path, then the lines.
TreeText(t, scheme, fault) ==
  IF fault.kind = "empty" THEN <<>>
  ELSE <<IF fault.kind = "badroot" THEN <<Rel, Hash(0), Hy, NameOf(scheme, 0)>>
                                   ELSE PathOf(scheme, 0)>>
       \o [i \in 1..Len(t) |-> LineText(t, scheme, fault, i)]

\* A store: the closure drawn, the names and sizes of its paths, and what is
\* wrong with the text drawn from it.
StoreOf(t, s, z, f) == [tree |-> t, names |-> s, sizes |-> z, fault |-> f]

(* ------------------------------ state --------------------------------- *)
VARIABLES
  store,      \* the Nix store the two nix-store queries answer from (never changes)
  pc,         \* where main is
  nodes,      \* PackageTree.nodes; arena position p is nodes[p + 1]
  by_level,   \* PackageTree.by_level; level l is by_level[l + 1]
  stack,      \* the active calls of process_lines, innermost last
  dot_file,   \* the file at --dot-file-path
  csv_file,   \* the file at --csv-file-path
  stdout      \* what main printed

vars == <<store, pc, nodes, by_level, stack, dot_file, csv_file, stdout>>

\* stdout of `nix-store --query --tree <store_path>`, split in lines.
tree_output == TreeText(store.tree, store.names, store.fault)

(* --------------------------- string helpers --------------------------- *)
starts_with(s, tok) == s # <<>> /\ Head(s) = tok
ends_with(s, tok) == s # <<>> /\ s[Len(s)] = tok

RECURSIVE trim_start_matches(_, _)
trim_start_matches(s, tok) ==
  IF starts_with(s, tok) THEN trim_start_matches(Tail(s), tok) ELSE s

RECURSIVE trim_end(_)
trim_end(s) ==
  IF ends_with(s, Sp) THEN trim_end(SubSeq(s, 1, Len(s) - 1)) ELSE s

trim(s) == trim_end(trim_start_matches(s, Sp))

strip_suffix(s) == SubSeq(s, 1, Len(s) - 1)

\* The second half of str::split_at(n).  Every path the annotation pass sees
\* is "/nix/store/", a hash, "-" and a name, so n = 44 falls between tokens.
RECURSIVE split_at_tail(_, _)
split_at_tail(s, n) ==
  IF n <= 0 \/ s = <<>> THEN s ELSE split_at_tail(Tail(s), n - TokLen(Head(s)))

(* ------------------------------ Package ------------------------------- *)
\* An f32 that is a ratio of naturals, or NaN.
F32(num, den) == [nan |-> FALSE, num |-> num, den |-> den]
NaN == [nan |-> TRUE, num |-> 0, den |-> 1]

PackageNew(path, size_bytes) ==
  [ level        |-> 0,
    path         |-> path,
    size_bytes   |-> size_bytes,
    dependencies |-> <<>>,
    used_by      |-> <<>>,
    short_name   |-> path,
    graph_size   |-> F32(1, 2) ]

\* `nix-store --query --size path`: the store's answer for the path's hash.
QuerySize(path) == SizeOf(store.sizes, path[2].n)

(* ---------------------------- PackageTree ----------------------------- *)
package(ns, pos) == ns[pos + 1]

add_package_pos(ns) == Len(ns)
add_package(ns, pkg) == Append(ns, pkg)

MaxOf(S) == CHOOSE x \in S : \A y \in S : y <= x
Elems(s) == {s[i] : i \in 1..Len(s)}

\* register_dependency leveling the child from the new parent alone.
register_dependency_new_parent_only(ns, package_pos, depends_pos) ==
  LET n1 == [ns EXCEPT ![package_pos + 1].dependencies = Append(@, depends_pos)]
      n2 == [n1 EXCEPT ![depends_pos + 1].used_by = Append(@, package_pos)]
  IN  [n2 EXCEPT ![depends_pos + 1].level = package(n2, package_pos).level + 1]

register_dependency(ns, package_pos, depends_pos) ==
  LET n1 == [ns EXCEPT ![package_pos + 1].dependencies = Append(@, depends_pos)]
      n2 == [n1 EXCEPT ![depends_pos + 1].used_by = Append(@, package_pos)]
      max_parent_level ==
        MaxOf({package(n2, p).level : p \in Elems(package(n2, depends_pos).used_by)})
  IN  [n2 EXCEPT ![depends_pos + 1].level = max_parent_level + 1]

\* The first arena position holding `path`, or -1 where the code's unwrap panics.
find_path_pos(ns, path) ==
  LET hits == {p \in 0..(Len(ns) - 1) : package(ns, p).path = path}
  IN  IF hits = {} THEN -1 ELSE CHOOSE p \in hits : \A q \in hits : p <= q

(* ---------------------------- process_lines --------------------------- *)
\* The lines at the front of `lines` that start with the continuation glyph
\* or a space, each without that first character and without the spaces that
\* follow it; and the lines left.
\* Drain popping a line that starts with a space without keeping it.
RECURSIVE Drain_dropping_indented(_, _)
Drain_dropping_indented(lines, child_lines) ==
  IF lines # <<>> /\ starts_with(Head(lines), Bar)
    THEN Drain_dropping_indented(Tail(lines),
               Append(child_lines, trim_start_matches(Tail(Head(lines)), Sp)))
  ELSE IF lines # <<>> /\ starts_with(Head(lines), Sp)
    THEN Drain_dropping_indented(Tail(lines), child_lines)
    ELSE [child_lines |-> child_lines, lines |-> lines]

RECURSIVE Drain(_, _)
Drain(lines, child_lines) ==
  IF lines # <<>> /\ (starts_with(Head(lines), Bar) \/ starts_with(Head(lines), Sp))
    THEN Drain(Tail(lines),
               Append(child_lines, trim_start_matches(Tail(Head(lines)), Sp)))
    ELSE [child_lines |-> child_lines, lines |-> lines]

Frame(parent_pos, lines) == [parent_pos |-> parent_pos, lines |-> lines]
Top == stack[Len(stack)]
SetTopLines(lines) == [stack EXCEPT ![Len(stack)].lines = lines]
HasBranch(line) == starts_with(line, Tee) \/ starts_with(line, Ell)
ObjectPath(line) == trim_start_matches(Tail(line), Dash)

Parsing == pc = "process_lines" /\ stack # <<>> /\ Top.lines # <<>>

Fail(to) ==
  /\ pc' = to
  /\ UNCHANGED <<store, nodes, by_level, stack, dot_file, csv_file, stdout>>

\* main, up to the call of process_lines.
MainStart ==
  /\ pc = "start"
  /\ IF tree_output = <<>>
       THEN Fail("panic")                          \* lines.next().unwrap()
     ELSE IF ~starts_with(Head(tree_output), Store)
       THEN Fail("err")
     ELSE \E size_ok \in BOOLEAN :
       IF ~size_ok
         THEN Fail("err")                          \* Package::new(root)?
         ELSE /\ nodes' = <<PackageNew(Head(tree_output), QuerySize(Head(tree_output)))>>
              /\ stack' = <<Frame(0, Tail(tree_output))>>
              /\ pc' = "process_lines"
              /\ UNCHANGED <<store, by_level, dot_file, csv_file, stdout>>

\* UnexpectedLine skipping the line instead of returning Err.
UnexpectedLine_skipped ==
  /\ pc = "process_lines" /\ stack # <<>> /\ stack[Len(stack)].lines # <<>>
  /\ ~(starts_with(Head(stack[Len(stack)].lines), Tee)
        \/ starts_with(Head(stack[Len(stack)].lines), Ell))
  /\ stack' = [stack EXCEPT ![Len(stack)].lines = Tail(@)]
  /\ UNCHANGED <<store, pc, nodes, by_level, dot_file, csv_file, stdout>>

\* The popped line starts with neither branch glyph.
UnexpectedLine ==
  /\ Parsing
  /\ ~HasBranch(Head(Top.lines))
  /\ Fail("err")

\* The path token does not start with "/".
UnexpectedPath ==
  /\ Parsing
  /\ HasBranch(Head(Top.lines))
  /\ ~starts_with(ObjectPath(Head(Top.lines)), Store)
  /\ Fail("err")

\* BackReference without the `object_pos != parent_pos` test.
BackReference_unguarded ==
  /\ Parsing
  /\ HasBranch(Head(Top.lines))
  /\ starts_with(ObjectPath(Head(Top.lines)), Store)
  /\ ends_with(ObjectPath(Head(Top.lines)), Ref)
  /\ LET object_path == trim(strip_suffix(ObjectPath(Head(Top.lines))))
         object_pos  == find_path_pos(nodes, object_path)
     IN  IF object_pos = -1
           THEN Fail("panic")
           ELSE /\ nodes' = register_dependency(nodes, Top.parent_pos, object_pos)
                /\ stack' = SetTopLines(Tail(Top.lines))
                /\ UNCHANGED <<store, pc, by_level, dot_file, csv_file, stdout>>

\* A line whose path ends with "[...]".
BackReference ==
  /\ Parsing
  /\ HasBranch(Head(Top.lines))
  /\ starts_with(ObjectPath(Head(Top.lines)), Store)
  /\ ends_with(ObjectPath(Head(Top.lines)), Ref)
  /\ LET object_path == trim(strip_suffix(ObjectPath(Head(Top.lines))))
         object_pos  == find_path_pos(nodes, object_path)
     IN  IF object_pos = -1
           THEN Fail("panic")
           ELSE /\ nodes' = IF object_pos # Top.parent_pos
                              THEN register_dependency(nodes, Top.parent_pos, object_pos)
                              ELSE nodes
                /\ stack' = SetTopLines(Tail(Top.lines))
                /\ UNCHANGED <<store, pc, by_level, dot_file, csv_file, stdout>>

\* A line with a path seen for the first time: the node, its edge, and the call
\* of process_lines on the lines drawn under it.
NewPath ==
  /\ Parsing
  /\ HasBranch(Head(Top.lines))
  /\ starts_with(ObjectPath(Head(Top.lines)), Store)
  /\ ~ends_with(ObjectPath(Head(Top.lines)), Ref)
  /\ \E size_ok \in BOOLEAN :
       IF ~size_ok
         THEN Fail("err")                          \* Package::new(object_path)?
         ELSE LET object_path == ObjectPath(Head(Top.lines))
                  pos         == add_package_pos(nodes)
                  added       == add_package(nodes, PackageNew(object_path, QuerySize(object_path)))
                  drained     == Drain(Tail(Top.lines), <<>>)
              IN  /\ nodes' = register_dependency(added, Top.parent_pos, pos)
                  /\ stack' = Append(SetTopLines(drained.lines),
                                     Frame(pos, drained.child_lines))
                  /\ UNCHANGED <<store, pc, by_level, dot_file, csv_file, stdout>>

\* A call of process_lines has no line left and returns Ok; the outermost
\* call returns to main.
ReturnOk ==
  /\ pc = "process_lines"
  /\ stack # <<>>
  /\ Top.lines = <<>>
  /\ stack' = SubSeq(stack, 1, Len(stack) - 1)
  /\ pc' = IF Len(stack) = 1 THEN "calculate_graph_properties" ELSE pc
  /\ UNCHANGED <<store, nodes, by_level, dot_file, csv_file, stdout>>

(* ---------------------- calculate_graph_properties -------------------- *)
\* A HashMap as a function on its keys.
EmptyMap == [k \in {} |-> 0]
insert(m, key, v) == [k \in DOMAIN m \cup {key} |-> IF k = key THEN v ELSE m[k]]
remove(m, key) == [k \in DOMAIN m \ {key} |-> m[k]]

HashPrefixLen == 44   \* "/nix/store/eeeeeeeeeeeeeeeeeeeeeeeeeeeeeeee-".len()

symbolic_name(path) == split_at_tail(path, HashPrefixLen)

\* NameStep leaving the symbolic key in the map on a collision.
NameStep_keeping_key(ns, m, pos) ==
  LET pkg == package(ns, pos)
      sym == symbolic_name(pkg.path)
  IN  IF sym \in DOMAIN m
        THEN LET other_pos == m[sym]
                 other     == package(ns, other_pos)
             IN  insert(insert(m, trim_start_matches(other.path, Store), other_pos),
                        trim_start_matches(pkg.path, Store), pos)
        ELSE insert(m, sym, pos)

\* One iteration of the first loop, on graph_names.
NameStep(ns, m, pos) ==
  LET pkg == package(ns, pos)
      sym == symbolic_name(pkg.path)
  IN  IF sym \in DOMAIN m
        THEN LET other_pos == m[sym]
                 other     == package(ns, other_pos)
             IN  insert(insert(remove(m, sym),
                               trim_start_matches(other.path, Store), other_pos),
                        trim_start_matches(pkg.path, Store), pos)
        ELSE insert(m, sym, pos)

\* graph_names after the first loop has seen positions 0 .. upto - 1.
RECURSIVE graph_names(_, _)
graph_names(ns, upto) ==
  IF upto = 0 THEN EmptyMap ELSE NameStep(ns, graph_names(ns, upto - 1), upto - 1)

MinOf(S) == CHOOSE x \in S : \A y \in S : x <= y

smallest_size_bytes(ns) == MinOf({ns[i].size_bytes : i \in 1..Len(ns)})
largest_size_bytes(ns) == MaxOf({ns[i].size_bytes : i \in 1..Len(ns)})
largest_level(ns) == MaxOf({ns[i].level : i \in 1..Len(ns)})

\* Vec::sort on a list of positions.
RECURSIVE sort(_)
sort(s) ==
  IF s = <<>> THEN <<>>
  ELSE LET i == CHOOSE i \in 1..Len(s) : \A j \in 1..Len(s) : s[i] <= s[j]
       IN  <<s[i]>> \o sort(SubSeq(s, 1, i - 1) \o SubSeq(s, i + 1, Len(s)))

\* f32 arithmetic on naturals: a / b (0 / 0 is NaN), then min and max, which
\* return the other operand when one is NaN.
f32_div(a, b) == IF b = 0 THEN NaN ELSE F32(a, b)
f32_le(x, y) == x.num * y.den <= y.num * x.den
f32_min(x, y) == IF x.nan THEN y ELSE IF y.nan THEN x ELSE IF f32_le(x, y) THEN x ELSE y
f32_max(x, y) == IF x.nan THEN y ELSE IF y.nan THEN x ELSE IF f32_le(x, y) THEN y ELSE x

\* 0.2 + 2.0 * ((size - smallest) / (largest - smallest)).min(1.0).max(0.0)
graph_size(size_bytes, smallest, largest) ==
  LET r == f32_max(f32_min(f32_div(size_bytes - smallest, largest - smallest),
                           F32(1, 1)),
                   F32(0, 1))
  IN  F32(r.den + 10 * r.num, 5 * r.den)

\* self.by_level after the pushes of empty levels and of every position.
levels_pushed(ns, old) ==
  old \o [l \in 1..(largest_level(ns) + 1) |-> <<>>]

\* by_level_filled putting each position at the front of its level.
RECURSIVE by_level_filled_front(_, _, _)
by_level_filled_front(ns, levels, upto) ==
  IF upto = 0 THEN levels
  ELSE LET before == by_level_filled_front(ns, levels, upto - 1)
       IN  [before EXCEPT ![ns[upto].level + 1] = <<upto - 1>> \o @]

RECURSIVE by_level_filled(_, _, _)
by_level_filled(ns, levels, upto) ==
  IF upto = 0 THEN levels
  ELSE LET before == by_level_filled(ns, levels, upto - 1)
       IN  [before EXCEPT ![ns[upto].level + 1] = Append(@, upto - 1)]

short_name_of(ns, m, pos) ==
  LET keys == {k \in DOMAIN m : m[k] = pos}
  IN  IF keys = {} THEN package(ns, pos).short_name ELSE CHOOSE k \in keys : TRUE

annotated(ns) ==
  LET m == graph_names(ns, Len(ns))
      lo == smallest_size_bytes(ns)
      hi == largest_size_bytes(ns)
  IN  [i \in 1..Len(ns) |->
         [ns[i] EXCEPT !.dependencies = sort(@),
                       !.graph_size   = graph_size(ns[i].size_bytes, lo, hi),
                       !.short_name   = short_name_of(ns, m, i - 1)]]

CalculateGraphProperties ==
  /\ pc = "calculate_graph_properties"
  /\ nodes' = annotated(nodes)
  /\ by_level' = by_level_filled(nodes, levels_pushed(nodes, by_level), Len(nodes))
  /\ pc' = "generate_dot_file"
  /\ UNCHANGED <<store, stack, dot_file, csv_file, stdout>>

(* --------------------------- generate_dot_file ------------------------ *)
RankChunk == 20   \* the literal 20 of chunk_size

\* chunk_size without the `.max(20)`.
chunk_size_unclamped(levels, level) ==
  LET total_elements == Len(levels)
  IN  1 + total_elements \div (1 + total_elements \div RankChunk)

chunk_size(levels, level) ==
  LET total_elements == Len(levels)
      size == 1 + total_elements \div (1 + total_elements \div RankChunk)
  IN  IF size >= RankChunk THEN size ELSE RankChunk

\* slice::chunks(n)
RECURSIVE chunks(_, _)
chunks(s, n) ==
  IF s = <<>> THEN <<>>
  ELSE IF Len(s) <= n THEN <<s>>
  ELSE <<SubSeq(s, 1, n)>> \o chunks(SubSeq(s, n + 1, Len(s)), n)

RECURSIVE Concat(_)
Concat(ss) == IF ss = <<>> THEN <<>> ELSE Head(ss) \o Concat(Tail(ss))

NodeStatements(ns, pos) ==
  <<[s |-> "node", pos |-> pos, size |-> package(ns, pos).graph_size,
     label |-> package(ns, pos).short_name]>>
  \o [d \in 1..Len(package(ns, pos).dependencies) |->
        [s |-> "edge", from |-> pos, to |-> package(ns, pos).dependencies[d]]]

RankStatements(levels, level) ==
  LET cs == chunks(levels[level + 1], chunk_size(levels, level))
  IN  [c \in 1..Len(cs) |->
        [s |-> "rank", level |-> level, sublevel |-> c - 1, members |-> cs[c]]]

ChainStatements(ranks) ==
  [w \in 1..(IF Len(ranks) = 0 THEN 0 ELSE Len(ranks) - 1) |->
     [s |-> "chain",
      from |-> <<ranks[w].level, ranks[w].sublevel>>,
      to   |-> <<ranks[w + 1].level, ranks[w + 1].sublevel>>]]

dot_text(ns, levels) ==
  LET ranks == Concat([l \in 1..Len(levels) |-> RankStatements(levels, l - 1)])
  IN  Concat([p \in 1..Len(ns) |-> NodeStatements(ns, p - 1)])
      \o ranks \o ChainStatements(ranks)

\* main's `if let Some(path) = args.dot_file_path`, and the call.  The file
\* is created when it is opened; opening may fail.
GenerateDotFile ==
  /\ pc = "generate_dot_file"
  /\ \E given \in BOOLEAN, opened \in BOOLEAN :
       IF ~given
         THEN /\ pc' = "generate_package_list"
              /\ UNCHANGED <<store, nodes, by_level, stack, dot_file, csv_file, stdout>>
       ELSE IF ~opened
         THEN Fail("err")
       ELSE /\ dot_file' = [created |-> TRUE, text |-> dot_text(nodes, by_level)]
            /\ pc' = "generate_package_list"
            /\ UNCHANGED <<store, nodes, by_level, stack, csv_file, stdout>>

(* ------------------------- generate_package_list ---------------------- *)
Row(ns, level, pkg_pos) ==
  [ pos |-> pkg_pos, level |-> level,
    package_name |-> package(ns, pkg_pos).short_name,
    size_bytes   |-> package(ns, pkg_pos).size_bytes,
    dependencies |-> package(ns, pkg_pos).dependencies,
    path         |-> package(ns, pkg_pos).path ]

csv_text(ns, levels) ==
  Concat([l \in 1..Len(levels) |->
            [k \in 1..Len(levels[l]) |-> Row(ns, l - 1, levels[l][k])]])

RECURSIVE sum_package_bytes(_)
sum_package_bytes(ns) ==
  IF ns = <<>> THEN 0 ELSE Head(ns).size_bytes + sum_package_bytes(Tail(ns))

\* main's `if let Some(path) = args.csv_file_path`, the call, and the println.
GeneratePackageList ==
  /\ pc = "generate_package_list"
  /\ \E given \in BOOLEAN, opened \in BOOLEAN :
       IF given /\ ~opened
         THEN Fail("err")
         ELSE /\ csv_file' = IF given
                               THEN [created |-> TRUE, text |-> csv_text(nodes, by_level)]
                               ELSE csv_file
              /\ stdout' = Append(stdout, sum_package_bytes(nodes))
              /\ pc' = "done"
              /\ UNCHANGED <<store, nodes, by_level, stack, dot_file>>

NoFile == [created |-> FALSE, text |-> <<>>]

\* The runs start from: every drawn tree of at most MaxLines lines under every
\* naming and every size table; every fault of the text, for one naming and
\* one size table (a fault ends the run before names or sizes are compared);
\* and the flat closures of WideLines and WiderLines dependencies.
Init ==
  /\ \/ \E t \in Trees, s \in NameSchemes, z \in SizeTables :
          store = StoreOf(t, s, z, NoFault)
     \/ \E t \in Trees : \E f \in Faults(t) \ {NoFault} :
          store = StoreOf(t, 0, "grow", f)
     \/ \E w \in {WideLines, WiderLines}, s \in NameSchemes, z \in SizeTables :
          store = StoreOf(FlatTree(w), s, z, NoFault)
  /\ pc = "start"
  /\ nodes = <<>>
  /\ by_level = <<>>
  /\ stack = <<>>
  /\ dot_file = NoFile
  /\ csv_file = NoFile
  /\ stdout = <<>>

Next ==
  \/ MainStart
  \/ UnexpectedLine
  \/ UnexpectedPath
  \/ BackReference
  \/ NewPath
  \/ ReturnOk
  \/ CalculateGraphProperties
  \/ GenerateDotFile
  \/ GeneratePackageList

Spec == Init /\ [][Next]_vars

(* ============================== claims ================================ *)
WellFormed == store.fault = NoFault

\* process_lines has returned Ok to main (and main has gone on).
ParsedOk == nodes # <<>> /\ stack = <<>> /\ pc \notin {"start", "process_lines"}

\* calculate_graph_properties has run.
Annotated == ParsedOk /\ by_level # <<>>

IsNewLine(i) == store.tree[i].ref = -1
LineNode(i) == NodeOfLine(store.tree, i)
level(pos) == package(nodes, pos).level

\* The arena position of the path line i is drawn directly under: the node
\* of the nearest line above it that is one level less deep, or the root.
DrawnParent(i) ==
  LET t == store.tree
      above == {j \in 1..(i - 1) : t[j].depth = t[i].depth - 1}
  IN  IF t[i].depth = 1 THEN 0 ELSE NodeOfLine(t, MaxOf(above))

\* C1: after process_lines returns Ok on a well-formed text, every node
\* created for a line was attached (its first used_by entry, the parent that
\* created it) to the node the line is drawn directly under.
C1_AttachedWhereDrawn ==
  (ParsedOk /\ WellFormed) =>
    \A i \in 1..Len(store.tree) :
      IsNewLine(i) => package(nodes, LineNode(i)).used_by[1] = DrawnParent(i)

\* K of C2: the path lines of the text (all but the first, the root) that do
\* not end with "[...]".
PlainPathLines == {i \in 2..Len(tree_output) : ~ends_with(tree_output[i], Ref)}

\* C2: after process_lines returns Ok on a well-formed text with K path lines
\* without the "[...]" suffix, the arena holds exactly K + 1 nodes.
C2_NodeCount ==
  (ParsedOk /\ WellFormed) => Len(nodes) = Cardinality(PlainPathLines) + 1

C2_Witness ==
  /\ pc = "done" /\ WellFormed
  /\ \E i, j \in 1..Len(store.tree) :
       /\ ~IsNewLine(i)
       /\ IsNewLine(j) /\ store.tree[j].depth >= 3
  /\ Len(nodes) = Cardinality(PlainPathLines) + 1

\* A step of process_lines that registers an edge: the edge's child is the
\* node that is new or whose used_by grew.
C3_Step ==
  (pc = "process_lines" /\ nodes' # nodes) =>
    \A p \in 1..Len(nodes') :
      IF p > Len(nodes) \/ nodes'[p].used_by # nodes[p].used_by
        THEN nodes'[p].level =
               1 + MaxOf({nodes'[q + 1].level : q \in Elems(nodes'[p].used_by)})
        ELSE nodes'[p].level = nodes[p].level

\* C3: register_dependency(parent, child) sets the child's level to 1 + the
\* greatest level among all the nodes in its used_by, and leaves the level of
\* every other node (the child's own dependencies included) as it was.
C3_RegisterLevels == [][C3_Step]_vars

\* A node with a second parent was re-leveled above the level its only-child
\* dependency was given from it before.
C3_Witness ==
  /\ pc = "done"
  /\ \E n, c \in 0..(Len(nodes) - 1) :
       /\ c \in Elems(package(nodes, n).dependencies)
       /\ package(nodes, c).used_by = <<n>>
       /\ Len(package(nodes, n).used_by) = 2
       /\ level(n) > level(package(nodes, n).used_by[1]) + 1
       /\ level(c) <= level(n)

\* A line that draws the root's path with "[...]" below another path.
RootDrawnBelow ==
  \E i \in 1..Len(store.tree) : store.tree[i].ref = 0 /\ store.tree[i].depth > 1

\* C4 as stated: the root's level is 0 in every state.
C4_RootLevelZero == nodes # <<>> => level(0) = 0

\* C4 amended: the root's level is 0 in every state of a run whose text
\* draws no back reference to the root below another path.
C4_RootLevelZeroUnlessDrawnBelow ==
  (nodes # <<>> /\ ~RootDrawnBelow) => level(0) = 0

\* The root's own path was drawn under it with "[...]", among other lines.
C4_Witness ==
  /\ pc = "done" /\ ~RootDrawnBelow
  /\ \E i \in 1..Len(store.tree) : store.tree[i].ref = 0
  /\ Len(nodes) >= 3
  /\ level(0) = 0

IsFifth(x) == ~x.nan /\ 5 * x.num = x.den

\* C5: after calculate_graph_properties, when every node has the same
\* size_bytes, every node's graph_size is 0.2.
C5_EqualSizes ==
  (Annotated /\ \A p, q \in 1..Len(nodes) : nodes[p].size_bytes = nodes[q].size_bytes)
    => \A p \in 1..Len(nodes) : IsFifth(nodes[p].graph_size)

\* The arena positions whose path has the symbolic key `key`.
WithKey(key) == {p \in 0..(Len(nodes) - 1) : symbolic_name(package(nodes, p).path) = key}
HashedName(pos) == SubSeq(package(nodes, pos).path, 2, Len(package(nodes, pos).path))

\* C6: after calculate_graph_properties, of three nodes with the same
\* symbolic key the first two in arena order have the path without
\* "/nix/store/" as short_name and the third has the bare key.
C6_PairwiseNames ==
  Annotated =>
    \A p \in 0..(Len(nodes) - 1) :
      LET same == WithKey(symbolic_name(package(nodes, p).path))
      IN  (Cardinality(same) = 3 /\ p = MaxOf(same)) =>
            /\ package(nodes, p).short_name = symbolic_name(package(nodes, p).path)
            /\ \A q \in same \ {p} : package(nodes, q).short_name = HashedName(q)

C6_Witness ==
  /\ Annotated
  /\ \E p \in 0..(Len(nodes) - 1) :
       /\ Cardinality(WithKey(symbolic_name(package(nodes, p).path))) = 3
       /\ package(nodes, p).short_name = symbolic_name(package(nodes, p).path)
  /\ \E q \in 0..(Len(nodes) - 1) : package(nodes, q).short_name = HashedName(q)

\* chunk_size of C7, from the number n of nodes at the level.
ClaimedChunk(n) ==
  LET size == 1 + n \div (1 + n \div 20) IN IF size > 20 THEN size ELSE 20

RanksOf(l) ==
  SelectSeq(dot_file.text, LAMBDA st : st.s = "rank" /\ st.level = l)

\* C7: in a written dot file, the rank groups of each level are the level's
\* bucket cut, in order, into chunks of ClaimedChunk(nodes at the level):
\* every group but the last has exactly that many members, the last has the
\* rest, and the groups are numbered 0, 1, ... in that order.
C7_RankChunks ==
  dot_file.created =>
    \A l \in 0..(Len(by_level) - 1) :
      LET bucket == by_level[l + 1]
          size   == ClaimedChunk(Len(bucket))
          ranks  == RanksOf(l)
      IN  /\ Len(ranks) = (Len(bucket) + size - 1) \div size
          /\ \A c \in 1..Len(ranks) :
               /\ ranks[c].sublevel = c - 1
               /\ ranks[c].members =
                    SubSeq(bucket, (c - 1) * size + 1,
                           IF c * size < Len(bucket) THEN c * size ELSE Len(bucket))

C7_Witness ==
  /\ dot_file.created
  /\ \E l \in 1..Len(by_level) : Len(by_level[l]) > 2 * 20
  /\ \E c \in 1..Len(RanksOf(1)) : RanksOf(1)[c].sublevel = 2

\* C8: a file is created or written only in a run whose text parsed without
\* error, after process_lines returned Ok and the annotation was done.
C8_NoPartialArtifacts ==
  (dot_file # NoFile \/ csv_file # NoFile) => (WellFormed /\ Annotated)

\* A parse error after part of the text became nodes; no file exists.
C8_Witness ==
  /\ pc = "err"
  /\ store.fault.kind \in {"badline", "badpath"}
  /\ Len(nodes) >= 3
  /\ dot_file = NoFile /\ csv_file = NoFile

NoSelfDependency(ns) ==
  \A p \in 1..Len(ns) : (p - 1) \notin Elems(ns[p].dependencies)

\* The line about to be popped is a back reference to the current parent.
AtSelfReference ==
  /\ Parsing
  /\ HasBranch(Head(Top.lines))
  /\ ends_with(ObjectPath(Head(Top.lines)), Ref)
  /\ find_path_pos(nodes, trim(strip_suffix(ObjectPath(Head(Top.lines))))) = Top.parent_pos

\* C9: no step of a run puts a node's own position in its dependencies, and
\* the step that pops a back reference to the current parent leaves every
\* node (levels, dependencies, used_by) as it was.
C9_NoSelfLoop ==
  [][NoSelfDependency(nodes') /\ (AtSelfReference => nodes' = nodes)]_vars

\* A path drawn under itself with "[...]" was parsed with that path's node
\* as parent, and the node has no dependency.
C9_Witness ==
  /\ pc = "done"
  /\ Len(store.tree) = 2
  /\ store.tree[2] = [depth |-> 2, ref |-> 1]
  /\ nodes[2].dependencies = <<>> /\ nodes[2].used_by = <<0>>

Ascending(s) == \A i, j \in 1..Len(s) : i < j => s[i] < s[j]

\* C10: after calculate_graph_properties every arena position is in the
\* bucket of its node's level and in no other, every bucket is in ascending
\* order; and a written csv file has one row per node, by increasing level.
C10_BucketsPartition ==
  Annotated =>
    /\ \A l \in 1..Len(by_level) :
         /\ Ascending(by_level[l])
         /\ Elems(by_level[l]) = {p \in 0..(Len(nodes) - 1) : level(p) = l - 1}
    /\ \A p \in 0..(Len(nodes) - 1) : level(p) < Len(by_level)
    /\ csv_file.created =>
         /\ Len(csv_file.text) = Len(nodes)
         /\ {csv_file.text[r].pos : r \in 1..Len(nodes)} = 0..(Len(nodes) - 1)
         /\ \A r \in 1..Len(nodes) :
              csv_file.text[r].level = level(csv_file.text[r].pos)
         /\ \A r, r2 \in 1..Len(nodes) :
              r < r2 => csv_file.text[r].level <= csv_file.text[r2].level

C10_Witness ==
  /\ pc = "done" /\ csv_file.created
  /\ Len(by_level) >= 3
  /\ \E l \in 1..Len(by_level) : Len(by_level[l]) >= 2
  /\ Len(csv_file.text) = Len(nodes)
====
